---- MODULE Spec2Model ----
(***************************************************************************)
(* Model of parse_vital.py: the construct-based decoder of .vital files     *)
(* (Vital.load_vital, Vital.__init__), the lookup Vital.get_track and the   *)
(* track view Track.__init__.  The decompressed file is a sequence of       *)
(* bytes; every construct of the source is an operator that takes the       *)
(* stream s and a 0-based position p and returns a record                   *)
(*   [err |-> "" or the exception raised, pos |-> position after, val]      *)
(* so that reads past a length prefix, padding and short reads are decided  *)
(* by the bytes, as in the source.                                          *)
(***************************************************************************)
EXTENDS Integers, Sequences, FiniteSets, TLC

VARIABLES
    input,          \* how the file on disk was produced (history variable)
    stream,         \* the decompressed bytes read through gzip.GzipFile
    pc,             \* "open" | "loop" | "check" | "ready" | "failed"
    pos,            \* f.tell()
    header,         \* load_vital: header
    body,           \* load_vital: body, then self.file.body
    trk_format,     \* load_vital: trk_format, trkid -> TRKINFO payload
    reads,          \* per loop iteration: where it started and how it ended
    summed_datalen, \* self.summed_datalen
    result,         \* "" while opening, then "ok" or the exception raised
    track_info,     \* self.track_info
    recs,           \* self.recs
    call            \* the last get_track call and its outcome

vars == <<input, stream, pc, pos, header, body, trk_format, reads,
          summed_datalen, result, track_info, recs, call>>

----------------------------------------------------------------------------
(* Primitive codecs (construct Byte, Int16ul, Int32ul, Int16sl, Int32sl,   *)
(* Float32l, Float64l, PascalString, Array, Padded).                        *)

Ok(p, v) == [err |-> "", pos |-> p, val |-> v]

Raise(e, p) == [err |-> e, pos |-> p, val |-> <<>>]

\* stream_read(stream, n) raises StreamError when fewer than n bytes remain
Short(s, p, n) == n > Len(s) - p

Bytes(s, p, n) == SubSeq(s, p + 1, p + n)

U8(s, p) == s[p + 1]

U16(s, p) == s[p + 1] + 256 * s[p + 2]

U32(s, p) == s[p + 1] + 256 * s[p + 2] + 65536 * s[p + 3] + 16777216 * s[p + 4]

S16(s, p) == IF U16(s, p) >= 32768 THEN U16(s, p) - 65536 ELSE U16(s, p)

S32(s, p) ==
    IF s[p + 4] >= 128
    THEN s[p + 1] + 256 * s[p + 2] + 65536 * s[p + 3] + 16777216 * (s[p + 4] - 256)
    ELSE U32(s, p)

\* PascalString(DWORD, "UTF-8"): a u32 length, that many bytes, decoded as
\* UTF-8.  The streams of this model hold 7-bit bytes, which decode to the
\* code point of the same number; a byte >= 128 is reported as a decoding
\* error (multi-byte sequences are not modelled).
String(s, p) ==
    IF Short(s, p, 4) THEN Raise("StreamError", Len(s))
    ELSE IF Short(s, p + 4, U32(s, p)) THEN Raise("StreamError", Len(s))
    ELSE IF \E i \in 1..U32(s, p) : s[p + 4 + i] >= 128
         THEN Raise("StringError", p + 4 + U32(s, p))
    ELSE Ok(p + 4 + U32(s, p), Bytes(s, p + 4, U32(s, p)))

\* Padded that leaves the bytes after the subcon unread
Padded_NoSkip(s, p, length, r) ==
    IF length < 0 THEN Raise("PaddingError", p)
    ELSE IF r.err # "" THEN r
    ELSE IF r.pos - p > length THEN Raise("PaddingError", r.pos)
    ELSE Ok(r.pos, r.val)

\* Padded(length, subcon): r is the outcome of subcon parsed at p
Padded(s, p, length, r) ==
    IF length < 0 THEN Raise("PaddingError", p)
    ELSE IF r.err # "" THEN r
    ELSE IF r.pos - p > length THEN Raise("PaddingError", r.pos)
    ELSE IF Short(s, r.pos, length - (r.pos - p)) THEN Raise("StreamError", Len(s))
    ELSE Ok(p + length, r.val)

\* Padding(length): skip length bytes
Padding(s, p, length) ==
    IF length < 0 THEN Raise("PaddingError", p)
    ELSE IF Short(s, p, length) THEN Raise("StreamError", Len(s))
    ELSE Ok(p + length, <<>>)

----------------------------------------------------------------------------
(* The packet structures of load_vital.                                     *)

\* recfmt_str: the element width of each recfmt
Width(recfmt) ==
    CASE recfmt = 1 -> 4
      [] recfmt = 2 -> 8
      [] recfmt = 3 -> 1
      [] recfmt = 4 -> 1
      [] recfmt = 5 -> 2
      [] recfmt = 6 -> 2
      [] recfmt = 7 -> 4
      [] recfmt = 8 -> 4

\* One element of recfmt_str.  Integers are decoded; a float is kept as its
\* IEEE-754 bytes.
Elem(s, p, recfmt) ==
    CASE recfmt \in {1, 2} -> Bytes(s, p, Width(recfmt))
      [] recfmt \in {3, 4} -> U8(s, p)
      [] recfmt = 5 -> S16(s, p)
      [] recfmt = 6 -> U16(s, p)
      [] recfmt = 7 -> S32(s, p)
      [] recfmt = 8 -> U32(s, p)

\* recfmt_str = Switch(this.recfmt, {1: float_[this.num], ...,
\*                     8: DWORD[this.num]}, default="Unknown recfmt")
recfmt_str(s, p, recfmt, num) ==
    IF recfmt \notin 1..8 THEN Raise("AttributeError", p)
    ELSE IF num > (Len(s) - p) \div Width(recfmt) THEN Raise("StreamError", Len(s))
    ELSE Ok(p + num * Width(recfmt),
            [i \in 1..num |-> Elem(s, p + (i - 1) * Width(recfmt), recfmt)])

\* The values of a REC: the fields present are listed in .fields, the others
\* hold a default.  items is the list a REC of unknown rec_type decodes to.
Values(fields, num, recfmt, vals, val, unused, sval, items) ==
    [fields |-> fields, num |-> num, recfmt |-> recfmt, vals |-> vals,
     val |-> val, unused |-> unused, sval |-> sval, items |-> items,
     vals_real |-> <<>>]

rec_wav_str(s, p, recfmt) ==
    IF Short(s, p, 4) THEN Raise("StreamError", Len(s))
    ELSE LET num == U32(s, p)
             r == recfmt_str(s, p + 4, recfmt, num)
         IN  IF r.err # "" THEN r
             ELSE Ok(r.pos, Values({"num", "recfmt", "vals"}, num, recfmt,
                                   r.val, <<>>, 0, <<>>, <<>>))

rec_num_str(s, p, recfmt) ==
    LET r == recfmt_str(s, p, recfmt, 1)
    IN  IF r.err # "" THEN r
        ELSE Ok(r.pos, Values({"recfmt", "num", "val"}, 1, recfmt,
                              <<>>, r.val, 0, <<>>, <<>>))

rec_str_str(s, p) ==
    IF Short(s, p, 4) THEN Raise("StreamError", Len(s))
    ELSE LET r == String(s, p + 4)
         IN  IF r.err # "" THEN r
             ELSE Ok(r.pos, Values({"unused", "sval"}, 0, 0,
                                   <<>>, <<>>, U32(s, p), r.val, <<>>))

\* default=Byte[this._.datalen - this.infolen - 2]
rec_default(s, p, count) ==
    IF count < 0 THEN Raise("RangeError", p)
    ELSE IF Short(s, p, count) THEN Raise("StreamError", Len(s))
    ELSE Ok(p + count, Values({}, 0, 0, <<>>, <<>>, 0, <<>>, Bytes(s, p, count)))

\* the Switch of rec_str with a default that raises
rec_values_Strict(s, p, rec_type, recfmt, budget) ==
    CASE rec_type = 1 -> Padded(s, p, budget, rec_wav_str(s, p, recfmt))
      [] rec_type = 2 -> Padded(s, p, budget, rec_num_str(s, p, recfmt))
      [] rec_type = 5 -> Padded(s, p, budget, rec_str_str(s, p))
      [] OTHER -> Raise("SwitchError", p)

\* "values" / Switch(this.rec_type, {1: Padded(budget, rec_wav_str), ...})
rec_values(s, p, rec_type, recfmt, budget) ==
    CASE rec_type = 1 -> Padded(s, p, budget, rec_wav_str(s, p, recfmt))
      [] rec_type = 2 -> Padded(s, p, budget, rec_num_str(s, p, recfmt))
      [] rec_type = 5 -> Padded(s, p, budget, rec_str_str(s, p))
      [] OTHER -> rec_default(s, p, budget)

\* Timestamp(double_, 1, 1970): the epoch shifted by the double's seconds.
\* The shift overflows for a double of 2^38 seconds or more (past year
\* 9999); the sign bit and the 11 exponent bits are in the last two bytes.
TimestampOk(s, p) ==
    LET e == (s[p + 8] % 128) * 16 + s[p + 7] \div 16
    IN  e < 1023 + 38

\* rec_str; fmt is trk_format, datalen the enclosing packet's (this._.datalen)
rec_str(s, p, fmt, datalen) ==
    IF Short(s, p, 10) THEN Raise("StreamError", Len(s))
    ELSE IF ~TimestampOk(s, p + 2) THEN Raise("OverflowError", p + 10)
    ELSE IF Short(s, p + 10, 2) THEN Raise("StreamError", Len(s))
    ELSE LET infolen == U16(s, p)
             trkid == U16(s, p + 10)
         IN  IF trkid \notin DOMAIN fmt THEN Raise("KeyError", p + 12)
             ELSE LET v == rec_values(s, p + 12, fmt[trkid].rec_type,
                                      fmt[trkid].recfmt, datalen - infolen - 2)
                  IN  IF v.err # "" THEN v
                      ELSE Ok(v.pos, [infolen |-> infolen, dt |-> Bytes(s, p + 2, 8),
                                      trkid |-> trkid,
                                      rec_type |-> fmt[trkid].rec_type,
                                      name |-> fmt[trkid].name,
                                      values |-> v.val])

\* "recfmt" / OneOf(Byte, [1, 6])
TrkinfoRecfmts == {1, 6}

trkinfo_str(s, p) ==
    IF Short(s, p, 4) THEN Raise("StreamError", Len(s))
    ELSE IF U8(s, p + 3) \notin TrkinfoRecfmts THEN Raise("ValidationError", p + 4)
    ELSE LET name == String(s, p + 4) IN
         IF name.err # "" THEN name
         ELSE LET unit == String(s, name.pos) IN
         IF unit.err # "" THEN unit
         ELSE LET q == unit.pos IN
         IF Short(s, q, 37) THEN Raise("StreamError", Len(s))
         ELSE Ok(q + 37, [trkid |-> U16(s, p), rec_type |-> U8(s, p + 2),
                          recfmt |-> U8(s, p + 3),
                          name |-> name.val, unit |-> unit.val,
                          minval |-> Bytes(s, q, 4), maxval |-> Bytes(s, q + 4, 4),
                          color |-> Bytes(s, q + 8, 4), srate |-> Bytes(s, q + 12, 4),
                          adc_gain |-> Bytes(s, q + 16, 8),
                          adc_offset |-> Bytes(s, q + 24, 8),
                          montype |-> U8(s, q + 32), devid |-> U32(s, q + 33)])

devinfo_str(s, p) ==
    IF Short(s, p, 4) THEN Raise("StreamError", Len(s))
    ELSE LET typename == String(s, p + 4) IN
         IF typename.err # "" THEN typename
         ELSE LET devname == String(s, typename.pos) IN
         IF devname.err # "" THEN devname
         ELSE LET port == String(s, devname.pos) IN
         IF port.err # "" THEN port
         ELSE Ok(port.pos, [devid |-> U32(s, p), typename |-> typename.val,
                            devname |-> devname.val, port |-> port.val])

\* cmd_str: cnt and trkids are None unless cmd = 5 (here cnt 0, no trkids)
cmd_str(s, p) ==
    IF Short(s, p, 1) THEN Raise("StreamError", Len(s))
    ELSE IF U8(s, p) # 5
         THEN Ok(p + 1, [cmd |-> U8(s, p),
                         cmd_str |-> IF U8(s, p) = 6 THEN "RESET_EVENTS" ELSE "Unknown CMD",
                         cnt |-> 0, trkids |-> <<>>, ordered |-> FALSE])
    ELSE IF Short(s, p + 1, 2) THEN Raise("StreamError", Len(s))
    ELSE IF U16(s, p + 1) > (Len(s) - (p + 3)) \div 2 THEN Raise("StreamError", Len(s))
    ELSE Ok(p + 3 + 2 * U16(s, p + 1),
            [cmd |-> 5, cmd_str |-> "ORDER", cnt |-> U16(s, p + 1),
             trkids |-> [i \in 1..U16(s, p + 1) |-> U16(s, p + 3 + 2 * (i - 1))],
             ordered |-> TRUE])

\* "type" / OneOf(Byte, [0, 1, 9, 6])
PacketTypes == {0, 1, 9, 6}

type_str(type) ==
    CASE type = 0 -> "TRKINFO"
      [] type = 1 -> "REC"
      [] type = 6 -> "CMD"
      [] type = 9 -> "DEVINFO"

\* "data" / Switch(this.type, {9: Padded(this.datalen, devinfo_str), ...},
\*                 default=Padding(this.datalen))
body_data(s, p, fmt, type, datalen) ==
    CASE type = 9 -> Padded(s, p, datalen, devinfo_str(s, p))
      [] type = 0 -> Padded(s, p, datalen, trkinfo_str(s, p))
      [] type = 1 -> Padded(s, p, datalen, rec_str(s, p, fmt, datalen))
      [] type = 6 -> Padded(s, p, datalen, cmd_str(s, p))
      [] OTHER -> Padding(s, p, datalen)

\* body_str.parse_stream(f) with f at position p
body_str(s, p, fmt) ==
    IF Short(s, p, 1) THEN Raise("StreamError", Len(s))
    ELSE IF U8(s, p) \notin PacketTypes THEN Raise("ValidationError", p + 1)
    ELSE IF Short(s, p + 1, 4) THEN Raise("StreamError", Len(s))
    ELSE LET type == U8(s, p)
             datalen == U32(s, p + 1)
             d == body_data(s, p + 5, fmt, type, datalen)
         IN  IF d.err # "" THEN d
             ELSE Ok(d.pos, [type |-> type, type_str |-> type_str(type),
                             datalen |-> datalen, data |-> d.val])

\* save_format_hook: trk_format.update({obj["trkid"]: obj})
save_format_hook(fmt, obj) ==
    [t \in DOMAIN fmt \cup {obj.trkid} |-> IF t = obj.trkid THEN obj ELSE fmt[t]]

Sig == <<86, 73, 84, 65>>   \* b'VITA'

\* header_str.parse_stream(f): six fixed fields, 20 bytes
header_str(s, p) ==
    IF Short(s, p, 4) THEN Raise("StreamError", Len(s))
    ELSE IF Bytes(s, p, 4) # Sig THEN Raise("ConstError", p + 4)
    ELSE IF Short(s, p + 4, 16) THEN Raise("StreamError", Len(s))
    ELSE Ok(p + 20, [sig |-> Sig, format_ver |-> U32(s, p + 4),
                     headerlen |-> U16(s, p + 8), tzbias |-> S16(s, p + 10),
                     inst_id |-> U32(s, p + 12), prog_ver |-> U32(s, p + 16)])

----------------------------------------------------------------------------
(* Vital.load_vital, Vital.__init__, Vital.get_track, Track.__init__        *)

\* f.seek(0, io.SEEK_END): the decompressed size
total_file_size == Len(stream)

RECURSIVE SumDatalen(_)
\* sum([x.datalen + 5 for x in body])
SumDatalen(b) ==
    IF b = <<>> THEN 0 ELSE (b[1].datalen + 5) + SumDatalen(Tail(b))

\* sum(...) + header.headerlen + 10
Summed(b, h) == SumDatalen(b) + h.headerlen + 10

\* the check with the assertion left out
IntegrityOk_Skipped(total, summed) == TRUE

\* assert total_file_size == self.summed_datalen
IntegrityOk(total, summed) == total = summed

RECURSIVE DataOfType(_, _)
\* [packet.data for packet in self.file.body if packet.type == type]
DataOfType(b, type) ==
    IF b = <<>> THEN <<>>
    ELSE IF b[1].type = type THEN <<b[1].data>> \o DataOfType(Tail(b), type)
    ELSE DataOfType(Tail(b), type)

NoHeader ==
    [sig |-> <<>>, format_ver |-> 0, headerlen |-> 0, tzbias |-> 0,
     inst_id |-> 0, prog_ver |-> 0]

\* an optional argument: None (trkid = None, name = None), or a value
NoTrkid == [given |-> FALSE, v |-> 0]

NoName == [given |-> FALSE, v |-> <<>>]

Some(v) == [given |-> TRUE, v |-> v]

NoCall == [made |-> FALSE, trkid |-> NoTrkid, name |-> NoName, err |-> "", track |-> <<>>]

\* header = header_str.parse_stream(f)
ParseHeader ==
    /\ pc = "open"
    /\ LET r == header_str(stream, 0) IN
       IF r.err = ""
       THEN /\ header' = r.val
            /\ pos' = r.pos
            /\ pc' = "loop"
            /\ UNCHANGED result
       ELSE /\ pos' = r.pos
            /\ pc' = "failed"
            /\ result' = r.err
            /\ UNCHANGED header
    /\ UNCHANGED <<input, stream, body, trk_format, reads, summed_datalen,
                   track_info, recs, call>>

\* one iteration of: while not completed: try: body.append(
\*     body_str.parse_stream(f)) except StreamError: completed = True
ParsePacket ==
    /\ pc = "loop"
    /\ LET r == body_str(stream, pos, trk_format) IN
       /\ reads' = Append(reads, [start |-> pos, end |-> r.pos, err |-> r.err])
       /\ pos' = r.pos
       /\ IF r.err = ""
          THEN /\ body' = Append(body, r.val)
               /\ trk_format' = IF r.val.type = 0
                                THEN save_format_hook(trk_format, r.val.data)
                                ELSE trk_format
               /\ UNCHANGED <<pc, result>>
          ELSE IF r.err = "StreamError"
          THEN /\ pc' = "check"
               /\ UNCHANGED <<body, trk_format, result>>
          ELSE /\ pc' = "failed"
               /\ result' = r.err
               /\ UNCHANGED <<body, trk_format>>
    /\ UNCHANGED <<input, stream, header, summed_datalen, track_info, recs, call>>

\* the integrity check that ends load_vital, then the two lists of __init__
CheckAndBuild ==
    /\ pc = "check"
    /\ summed_datalen' = Summed(body, header)
    /\ IF IntegrityOk(total_file_size, Summed(body, header))
       THEN /\ pc' = "ready"
            /\ result' = "ok"
            /\ track_info' = DataOfType(body, 0)
            /\ recs' = DataOfType(body, 1)
       ELSE /\ pc' = "failed"
            /\ result' = "AssertionError"
            /\ UNCHANGED <<track_info, recs>>
    /\ UNCHANGED <<input, stream, pos, header, body, trk_format, reads, call>>

\* (trk for trk in vital_obj.track_info if trk.trkid == trkid), as indices
WithTrkid(infos, trkid) == {i \in 1..Len(infos) : infos[i].trkid = trkid}

\* (x.trkid for x in self.track_info if x.name == name), as indices
WithName(infos, name) == {i \in 1..Len(infos) : infos[i].name = name}

RECURSIVE RecsOf(_, _)
\* [rec for rec in vital_obj.recs if rec.trkid == trkid]
RecsOf(list, trkid) ==
    IF list = <<>> THEN <<>>
    ELSE IF list[1].trkid = trkid THEN <<list[1]>> \o RecsOf(Tail(list), trkid)
    ELSE RecsOf(Tail(list), trkid)

\* the one rec of Track.__init__'s loop: sets vals_real (and num) on the rec
\* object itself
ConvertRec(rec, info) ==
    LET v == rec.values IN
    CASE info.rec_type = 1 ->
           IF "vals" \notin v.fields THEN [err |-> "AttributeError", rec |-> rec]
           ELSE [err |-> "",
                 rec |-> [rec EXCEPT !.values.fields = @ \cup {"vals_real"},
                            !.values.vals_real =
                                [i \in 1..Len(v.vals) |->
                                    <<v.vals[i], info.adc_gain, info.adc_offset>>]]]
      [] info.rec_type = 2 ->
           IF "val" \notin v.fields THEN [err |-> "AttributeError", rec |-> rec]
           ELSE IF v.val = <<>> THEN [err |-> "IndexError", rec |-> rec]
           ELSE [err |-> "",
                 rec |-> [rec EXCEPT !.values.fields = @ \cup {"vals_real"},
                            !.values.vals_real =
                                <<v.val[1], info.adc_gain, info.adc_offset>>]]
      [] info.rec_type = 5 ->
           IF "sval" \notin v.fields THEN [err |-> "AttributeError", rec |-> rec]
           ELSE [err |-> "",
                 rec |-> [rec EXCEPT !.values.fields = @ \cup {"vals_real", "num"},
                            !.values.vals_real = v.sval,
                            !.values.num = 1]]
      [] OTHER -> [err |-> "Exception", rec |-> rec]

RECURSIVE ConvertAll(_, _, _)
\* for i, rec in enumerate(self.recs): ...  over the recs of one track; the
\* recs before the one that raises stay converted
ConvertAll(list, trkid, info) ==
    IF list = <<>> THEN [err |-> "", list |-> <<>>]
    ELSE IF list[1].trkid # trkid
    THEN LET rest == ConvertAll(Tail(list), trkid, info)
         IN  [err |-> rest.err, list |-> <<list[1]>> \o rest.list]
    ELSE LET c == ConvertRec(list[1], info) IN
         IF c.err # "" THEN [err |-> c.err, list |-> list]
         ELSE LET rest == ConvertAll(Tail(list), trkid, info)
              IN  [err |-> rest.err, list |-> <<c.rec>> \o rest.list]

\* Track(vital_obj, trkid): [err, recs (vital_obj.recs afterwards), track]
Track(infos, list, trkid) ==
    LET m == WithTrkid(infos, trkid) IN
    IF Cardinality(m) # 1 THEN [err |-> "ValueError", recs |-> list, track |-> <<>>]
    ELSE LET info == infos[CHOOSE i \in m : TRUE]
             c == ConvertAll(list, trkid, info)
         IN  IF c.err # "" THEN [err |-> c.err, recs |-> c.list, track |-> <<>>]
             ELSE [err |-> "", recs |-> c.list,
                   track |-> <<[info |-> info,
                                recs |-> RecsOf(c.list, trkid)]>>]

\* get_track without the assertion that trkid equals the trkid of the name
get_track_NoAssert(infos, list, trkid, name) ==
    IF ~trkid.given /\ ~name.given
    THEN [err |-> "ValueError", recs |-> list, track |-> <<>>]
    ELSE IF name.given
    THEN LET m == WithName(infos, name.v) IN
         IF Cardinality(m) # 1
         THEN [err |-> "ValueError", recs |-> list, track |-> <<>>]
         ELSE Track(infos, list, infos[CHOOSE i \in m : TRUE].trkid)
    ELSE Track(infos, list, trkid.v)

\* Vital.get_track(trkid, name) on the lists infos and list
get_track(infos, list, trkid, name) ==
    IF ~trkid.given /\ ~name.given
    THEN [err |-> "ValueError", recs |-> list, track |-> <<>>]
    ELSE IF name.given
    THEN LET m == WithName(infos, name.v) IN
         IF Cardinality(m) # 1
         THEN [err |-> "ValueError", recs |-> list, track |-> <<>>]
         ELSE LET trkid_from_name == infos[CHOOSE i \in m : TRUE].trkid IN
              IF trkid.given /\ trkid.v # trkid_from_name
              THEN [err |-> "AssertionError", recs |-> list, track |-> <<>>]
              ELSE Track(infos, list, trkid_from_name)
    ELSE Track(infos, list, trkid.v)

RECURSIVE WriteBack(_, _)
\* the entries of self.recs are the data objects of the type-1 packets of
\* self.file.body: what Track.__init__ sets on one shows in the other
WriteBack(b, list) ==
    IF b = <<>> THEN <<>>
    ELSE IF b[1].type = 1
    THEN <<[b[1] EXCEPT !.data = list[1]]>> \o WriteBack(Tail(b), Tail(list))
    ELSE <<b[1]>> \o WriteBack(Tail(b), list)

GetTrack(trkid, name) ==
    /\ pc = "ready"
    /\ LET r == get_track(track_info, recs, trkid, name) IN
       /\ recs' = r.recs
       /\ body' = WriteBack(body, r.recs)
       /\ call' = [made |-> TRUE, trkid |-> trkid, name |-> name,
                   err |-> r.err, track |-> r.track]
    /\ UNCHANGED <<input, stream, pc, pos, header, trk_format, reads,
                   summed_datalen, result, track_info>>

----------------------------------------------------------------------------
(* The files the decoder is run on.  A file is described by its header's   *)
(* headerlen, the bytes its header holds on disk after the 20 bytes of      *)
(* header_str, its packets, and what was done to its end; Encode lays the   *)
(* description out as bytes, following the structures of load_vital.        *)

MaxPackets == 2      \* packets of a file drawn from FramePackets, TrackPackets

LE16(n) == <<n % 256, n \div 256>>

LE32(n) == <<n % 256, (n \div 256) % 256, (n \div 65536) % 256, n \div 16777216>>

Zeros(n) == [i \in 1..n |-> 0]

EncString(b) == LE32(Len(b)) \o b

HR == <<72, 82>>

ABP == <<65, 66, 80>>

EVENT == <<69, 86, 69, 78, 84>>

\* the fields of a TRKINFO after unit: minval 0.0, maxval 0.0, color, srate
\* 2.0, adc_gain 2.0, adc_offset 0.0, montype 1, devid 7
TrkinfoTail ==
    Zeros(4) \o Zeros(4) \o Zeros(4) \o <<0, 0, 0, 64>>
    \o <<0, 0, 0, 0, 0, 0, 0, 64>> \o Zeros(8) \o <<1>> \o LE32(7)

P0 ==
    [kind |-> "", type |-> 0, trkid |-> 0, rec_type |-> 0, recfmt |-> 0,
     name |-> <<>>, infolen |-> 0, num |-> 0, elems |-> 0, sval |-> <<>>,
     surplus |-> 0, pad |-> 0, cmd |-> 0, cnt |-> 0, ids |-> <<>>]

\* a TRKINFO packet, its body followed by pad bytes of padding
T(trkid, rec_type, recfmt, name, pad) ==
    [P0 EXCEPT !.kind = "TRKINFO", !.type = 0, !.trkid = trkid,
               !.rec_type = rec_type, !.recfmt = recfmt, !.name = name,
               !.pad = pad]

\* a REC packet of track trkid whose values are laid out for rec_type and
\* recfmt: a WAV declares num elements and holds elems, a STR holds sval;
\* surplus bytes follow the values inside the budget datalen - infolen - 2
R(trkid, rec_type, recfmt, infolen, num, elems, sval, surplus) ==
    [P0 EXCEPT !.kind = "REC", !.type = 1, !.trkid = trkid,
               !.rec_type = rec_type, !.recfmt = recfmt, !.infolen = infolen,
               !.num = num, !.elems = elems, !.sval = sval,
               !.surplus = surplus]

\* a CMD packet: cmd 5 declares cnt track ids and holds ids
C(cmd, cnt, ids, pad) ==
    [P0 EXCEPT !.kind = "CMD", !.type = 6, !.cmd = cmd, !.cnt = cnt,
               !.ids = ids, !.pad = pad]

D(pad) == [P0 EXCEPT !.kind = "DEVINFO", !.type = 9, !.pad = pad]

\* a packet of a type load_vital does not know, with pad bytes of body
X(type, pad) == [P0 EXCEPT !.kind = "OTHER", !.type = type, !.pad = pad]

\* element i of a block, in the width of its recfmt
ElemBytes(i, recfmt) == <<i>> \o Zeros(Width(recfmt) - 1)

RECURSIVE Flatten(_)
Flatten(ss) == IF ss = <<>> THEN <<>> ELSE ss[1] \o Flatten(Tail(ss))

\* the values of a REC as bytes: rec_wav_str, rec_num_str, rec_str_str, or
\* nothing for a rec_type that has no structure
EncValues(d) ==
    CASE d.rec_type = 1 ->
           LE32(d.num) \o Flatten([i \in 1..d.elems |-> ElemBytes(i, d.recfmt)])
      [] d.rec_type = 2 -> ElemBytes(72, d.recfmt)
      [] d.rec_type = 5 -> LE32(0) \o EncString(d.sval)
      [] OTHER -> <<>>

\* the body of a packet as its writer means it
EncBody(d) ==
    CASE d.kind = "TRKINFO" ->
           LE16(d.trkid) \o <<d.rec_type, d.recfmt>> \o EncString(d.name)
           \o EncString(<<>>) \o TrkinfoTail \o Zeros(d.pad)
      [] d.kind = "REC" ->
           LE16(d.infolen) \o Zeros(8) \o LE16(d.trkid) \o EncValues(d)
           \o Zeros(d.surplus)
           \o Zeros(IF d.infolen > 10 THEN d.infolen - 10 ELSE 0)
      [] d.kind = "CMD" ->
           IF d.cmd = 5
           THEN <<5>> \o LE16(d.cnt)
                \o Flatten([i \in 1..Len(d.ids) |-> LE16(d.ids[i])]) \o Zeros(d.pad)
           ELSE <<d.cmd>> \o Zeros(d.pad)
      [] d.kind = "DEVINFO" ->
           LE32(7) \o EncString(<<68>>) \o EncString(<<>>) \o EncString(<<80>>)
           \o Zeros(d.pad)
      [] OTHER -> Zeros(d.pad)

\* the datalen a packet declares: the length of its body, and for a REC
\* the budget of its values + infolen + 2
EncDatalen(d) ==
    IF d.kind = "REC"
    THEN Len(EncValues(d)) + d.surplus + d.infolen + 2
    ELSE Len(EncBody(d))

\* a packet on disk: type, datalen, and datalen bytes of body
EncPacket(d) ==
    <<d.type>> \o LE32(EncDatalen(d)) \o SubSeq(EncBody(d), 1, EncDatalen(d))

EncHeader(hl, disk) ==
    Sig \o LE32(3) \o LE16(hl) \o LE16(0) \o LE32(0) \o LE32(0) \o Zeros(disk)

Encode(in) ==
    LET whole == EncHeader(in.hl, in.disk)
                 \o Flatten([i \in 1..Len(in.pkts) |-> EncPacket(in.pkts[i])])
                 \o in.extra
    IN  SubSeq(whole, 1, Len(whole) - in.cut)

In(hl, disk, pkts, cut, extra) ==
    [hl |-> hl, disk |-> disk, pkts |-> pkts, cut |-> cut, extra |-> extra]

\* the sequences of at most n packets of a set
Seqs(S, n) == UNION {[1..k -> S] : k \in 0..n}

\* packets for the framing: CMD with and without padding, a CMD that needs
\* more than its datalen, DEVINFO, a packet of unknown type, a track and a
\* REC of it
FramePackets ==
    {C(6, 0, <<>>, 0), C(6, 0, <<>>, 2), C(5, 1, <<1>>, 0), C(5, 2, <<1>>, 0),
     D(0), X(99, 2), T(1, 2, 1, HR, 0), R(1, 2, 1, 10, 0, 0, <<>>, 0)}

TrackInfos ==
    {T(1, 2, 1, HR, 0), T(2, 1, 6, ABP, 1), T(1, 5, 1, EVENT, 0),
     T(2, 5, 1, EVENT, 0), T(2, 3, 1, HR, 0), T(1, 1, 2, ABP, 0)}

TrackRecs ==
    {R(1, 2, 1, 10, 0, 0, <<>>, 0), R(2, 1, 6, 10, 2, 2, <<>>, 0),
     R(2, 1, 6, 11, 2, 2, <<>>, 1), R(1, 5, 1, 10, 0, 0, <<73>>, 0),
     R(2, 5, 1, 10, 0, 0, <<>>, 0), R(2, 1, 6, 9, 2, 2, <<>>, 0),
     R(2, 1, 6, 10, 3, 2, <<>>, 0), R(2, 3, 1, 10, 0, 0, <<>>, 2)}

TrackPackets == TrackInfos \cup TrackRecs

HeaderLens == {10, 11, 16}

\* the end of the file: intact, cut short, or with one more byte
Tails ==
    {[cut |-> 0, extra |-> <<>>], [cut |-> 1, extra |-> <<>>],
     [cut |-> 3, extra |-> <<>>], [cut |-> 0, extra |-> <<0>>],
     [cut |-> 0, extra |-> <<99>>]}

\* every header and every end, around a few packets
FrameInputs ==
    UNION {{In(hl, disk, pkts, tl.cut, tl.extra) :
                disk \in {0, hl - 10}, pkts \in Seqs(FramePackets, MaxPackets),
                tl \in Tails} : hl \in HeaderLens}

\* intact files of a 20-byte header and track packets
TrackInputs ==
    {In(10, 0, pkts, 0, <<>>) : pkts \in Seqs(TrackPackets, MaxPackets)}

\* a track of every recfmt and a WAV REC of it with 0 to 2 elements
RecfmtInputs ==
    {In(10, 0, <<T(1, 1, f, ABP, 0), R(1, 1, f, 10, n, n, <<>>, 0)>>, 0, <<>>) :
        f \in 1..8, n \in 0..2}

\* longer files: the seed scenarios (a 26-byte header with headerlen 16, an
\* unknown packet before a REC, two EVENT tracks and their RECs), a padded
\* TRKINFO and a padded REC before a REC that announces more elements than
\* it holds, and the files of one or two tracks and one or two RECs
ScenarioInputs ==
    {In(16, 6, <<T(1, 2, 1, HR, 0), R(1, 2, 1, 10, 0, 0, <<>>, 0)>>, 0, <<>>),
     In(10, 0, <<T(1, 2, 1, HR, 0), X(99, 10), R(1, 2, 1, 10, 0, 0, <<>>, 0)>>,
        0, <<>>),
     In(10, 0, <<T(1, 5, 1, EVENT, 0), T(2, 5, 1, EVENT, 0),
                 R(1, 5, 1, 10, 0, 0, <<73>>, 0), R(2, 5, 1, 10, 0, 0, <<>>, 0)>>,
        0, <<>>),
     In(10, 0, <<T(2, 1, 6, ABP, 1), R(2, 1, 6, 11, 2, 2, <<>>, 1),
                 R(2, 1, 6, 10, 3, 2, <<>>, 0), R(2, 1, 6, 10, 2, 2, <<>>, 0)>>,
        0, <<>>)}
    \cup {In(10, 0, <<a, b, c>>, 0, <<>>) :
            a \in TrackInfos, b \in TrackPackets, c \in TrackRecs}

Inputs == FrameInputs \cup TrackInputs \cup RecfmtInputs \cup ScenarioInputs

TrkidArgs == {NoTrkid} \cup {Some(t) : t \in 1..3}

NameArgs == {NoName} \cup {Some(n) : n \in {HR, ABP, EVENT}}

Init ==
    /\ input \in Inputs
    /\ stream = Encode(input)
    /\ pc = "open"
    /\ pos = 0
    /\ header = NoHeader
    /\ body = <<>>
    /\ trk_format = <<>>
    /\ reads = <<>>
    /\ summed_datalen = 0
    /\ result = ""
    /\ track_info = <<>>
    /\ recs = <<>>
    /\ call = NoCall

Next ==
    \/ ParseHeader
    \/ ParsePacket
    \/ CheckAndBuild
    \/ \E trkid \in TrkidArgs, name \in NameArgs : GetTrack(trkid, name)

Spec == Init /\ [][Next]_vars

----------------------------------------------------------------------------
(* Properties.                                                              *)

Finished == pc \in {"ready", "failed"}

\* the packet loop ran until a StreamError, so the integrity check was made
LoopCompleted ==
    /\ Finished
    /\ reads # <<>>
    /\ reads[Len(reads)].err = "StreamError"

\* summed = (sum of datalen + 5 over the decoded packets) + headerlen + 10
\* differs from the decompressed size
SumsDiffer == header # NoHeader /\ Summed(body, header) # total_file_size

\* C1, as claimed: whenever the two sizes differ, opening fails with the
\* integrity error.  (Files whose loop is stopped by the OneOf validation of
\* a type or recfmt byte are left to C3 and C6 and not counted here.)
C1_Original ==
    (Finished /\ SumsDiffer /\ result # "ValidationError")
        => result = "AssertionError"

\* C1, amended: a file model is returned only if summed equals the
\* decompressed size; whenever the two differ opening fails and no model is
\* returned, with the integrity (assertion) error when the packet loop ran
\* to its StreamError, and with the error that stopped the loop otherwise.
C1_Integrity ==
    /\ result = "ok" =>
          /\ Summed(body, header) = total_file_size
          /\ summed_datalen = total_file_size
    /\ (Finished /\ SumsDiffer) => (pc = "failed" /\ result \notin {"", "ok"})
    /\ (LoopCompleted /\ SumsDiffer) => result = "AssertionError"

\* an intact two-packet file with one more byte at its end is refused by
\* the integrity check
C1_Witness ==
    /\ pc = "failed"
    /\ result = "AssertionError"
    /\ input.extra # <<>>
    /\ input.cut = 0
    /\ Len(body) = 2
    /\ summed_datalen + 1 = total_file_size

\* the last loop iteration read a type byte and then ran out of bytes
\* before the end of the packet that its datalen (if any) announces
TruncatedPacket ==
    /\ LoopCompleted
    /\ LET start == reads[Len(reads)].start
           left == Len(stream) - start
       IN  /\ left > 0
           /\ \/ left < 5
              \/ U32(stream, start + 1) > left - 5

\* C7: a short read inside a packet makes opening fail, whatever the header
\* holds; a model is returned only when the stream ends at a packet
\* boundary.
C7_TruncationFatal ==
    /\ TruncatedPacket => result # "ok"
    /\ result = "ok" => reads[Len(reads)].start = Len(stream)

\* the bytes a decoded packet's body structure needs
BodyNeed(pkt) ==
    CASE pkt.type = 0 -> 49 + Len(pkt.data.name) + Len(pkt.data.unit)
      [] pkt.type = 9 -> 16 + Len(pkt.data.typename) + Len(pkt.data.devname)
                         + Len(pkt.data.port)
      [] pkt.type = 6 -> IF pkt.data.cmd = 5 THEN 3 + 2 * pkt.data.cnt ELSE 1
      [] pkt.type = 1 -> 12 + (pkt.datalen - pkt.data.infolen - 2)
      [] OTHER -> 0

\* the bytes the variant of a decoded REC needs
VariantNeed(rec) ==
    CASE rec.rec_type = 1 -> 4 + rec.values.num * Width(rec.values.recfmt)
      [] rec.rec_type = 2 -> Width(rec.values.recfmt)
      [] rec.rec_type = 5 -> 8 + Len(rec.values.sval)
      [] OTHER -> 0

RECURSIVE Declared(_, _, _)
\* the index of the last TRKINFO of trkid among the first k packets written
\* to a file, 0 if there is none
Declared(pkts, k, trkid) ==
    IF k = 0 THEN 0
    ELSE IF pkts[k].kind = "TRKINFO" /\ pkts[k].trkid = trkid THEN k
    ELSE Declared(pkts, k - 1, trkid)

\* the REC written as packet k was laid out for the rec_type and recfmt of
\* the TRKINFO that declares its track
Matches(pkts, k) ==
    LET j == Declared(pkts, k - 1, pkts[k].trkid)
    IN  /\ j > 0
        /\ pkts[j].rec_type = pkts[k].rec_type
        /\ pkts[j].recfmt = pkts[k].recfmt

\* packet k of the file, as written, has a structure that needs more bytes
\* than its datalen or its REC budget gives it
Overrun(pkts, k) ==
    LET d == pkts[k] IN
    \/ d.kind = "CMD" /\ d.cmd = 5 /\ d.cnt > Len(d.ids)
    \/ d.kind = "REC" /\ d.infolen < 10
    \/ d.kind = "REC" /\ d.rec_type = 1 /\ d.num > d.elems /\ Matches(pkts, k)

ExpTrkinfo(d) ==
    [trkid |-> d.trkid, rec_type |-> d.rec_type, recfmt |-> d.recfmt,
     name |-> d.name, unit |-> <<>>, minval |-> Zeros(4), maxval |-> Zeros(4),
     color |-> Zeros(4), srate |-> <<0, 0, 0, 64>>,
     adc_gain |-> <<0, 0, 0, 0, 0, 0, 0, 64>>, adc_offset |-> Zeros(8),
     montype |-> 1, devid |-> 7]

\* element i of a block as it was written: the number i, or for a float
\* format the bytes written
ExpElem(i, recfmt) == IF recfmt \in {1, 2} THEN ElemBytes(i, recfmt) ELSE i

\* the values a REC was written with
ExpValues(d) ==
    CASE d.rec_type = 1 ->
           Values({"num", "recfmt", "vals"}, d.num, d.recfmt,
                  [i \in 1..d.elems |-> ExpElem(i, d.recfmt)], <<>>, 0, <<>>, <<>>)
      [] d.rec_type = 2 ->
           Values({"recfmt", "num", "val"}, 1, d.recfmt, <<>>,
                  <<ExpElem(72, d.recfmt)>>, 0, <<>>, <<>>)
      [] d.rec_type = 5 ->
           Values({"unused", "sval"}, 0, 0, <<>>, <<>>, 0, d.sval, <<>>)

\* the REC payload packet k of a file was written with
ExpRec(pkts, k) ==
    [infolen |-> pkts[k].infolen, dt |-> Zeros(8), trkid |-> pkts[k].trkid,
     rec_type |-> pkts[k].rec_type,
     name |-> pkts[Declared(pkts, k - 1, pkts[k].trkid)].name,
     values |-> ExpValues(pkts[k])]

RECURSIVE ExpTrackInfo(_)
\* the TRKINFO payloads of a file, in file order
ExpTrackInfo(pkts) ==
    IF pkts = <<>> THEN <<>>
    ELSE LET front == SubSeq(pkts, 1, Len(pkts) - 1)
             d == pkts[Len(pkts)]
         IN  IF d.kind = "TRKINFO" THEN Append(ExpTrackInfo(front), ExpTrkinfo(d))
             ELSE ExpTrackInfo(front)

RECURSIVE ExpRecs(_, _)
\* the REC payloads of the first k packets of a file, in file order
ExpRecs(pkts, k) ==
    IF k = 0 THEN <<>>
    ELSE IF pkts[k].kind = "REC" THEN Append(ExpRecs(pkts, k - 1), ExpRec(pkts, k))
    ELSE ExpRecs(pkts, k - 1)

\* packet k is laid out as the format describes its type
WellFormedPacket(pkts, k) ==
    LET d == pkts[k] IN
    CASE d.kind = "TRKINFO" -> d.rec_type \in {1, 2, 5} /\ d.recfmt \in 1..8
      [] d.kind = "REC" -> /\ d.infolen >= 10
                           /\ d.rec_type \in {1, 2, 5}
                           /\ d.rec_type = 1 => d.elems = d.num
                           /\ Matches(pkts, k)
      [] d.kind = "CMD" -> d.cmd = 5 => d.cnt = Len(d.ids)
      [] d.kind = "DEVINFO" -> TRUE
      [] OTHER -> FALSE

\* a well-formed stream: the header takes headerlen + 10 bytes on disk, the
\* packets are of types 0, 1, 6, 9 and well laid out, every REC follows the
\* TRKINFO of its track, and the file ends with its last packet
WellFormed(in) ==
    /\ in.disk = in.hl - 10
    /\ in.cut = 0
    /\ in.extra = <<>>
    /\ \A k \in 1..Len(in.pkts) : WellFormedPacket(in.pkts, k)

\* the tracks of a file have the recfmts that OneOf(Byte, [1, 6]) lets in
TestedRecfmts(in) ==
    \A k \in 1..Len(in.pkts) :
        in.pkts[k].kind = "TRKINFO" => in.pkts[k].recfmt \in TrkinfoRecfmts

\* C2: a well-formed stream, whatever its headerlen, is parsed, and
\* track_info and recs are its TRKINFO and REC payloads in file order
\* (empty for a file of a header alone).  (Stated for the tracks of recfmt
\* 1 and 6; the other recfmts are the subject of C6.)
C2_WellFormedParses ==
    (WellFormed(input) /\ TestedRecfmts(input) /\ Finished /\ ~call.made) =>
        /\ result = "ok"
        /\ track_info = ExpTrackInfo(input.pkts)
        /\ recs = ExpRecs(input.pkts, Len(input.pkts))

\* a well-formed stream but for packets of unknown type, after a header of
\* the 20 bytes header_str reads and with tracks of the recfmts OneOf lets in
WellFormedButUnknown(in) ==
    /\ in.hl = 10 /\ in.disk = 0 /\ in.cut = 0 /\ in.extra = <<>>
    /\ \E k \in 1..Len(in.pkts) : in.pkts[k].kind = "OTHER"
    /\ \A k \in 1..Len(in.pkts) :
          \/ in.pkts[k].kind = "OTHER"
          \/ WellFormedPacket(in.pkts, k)
    /\ TestedRecfmts(in)

\* C3: a packet of unknown type does not abort parsing: its datalen bytes
\* are skipped and the packets after it are decoded as they would be
\* without it.
C3_UnknownSkipped ==
    (WellFormedButUnknown(input) /\ Finished /\ ~call.made) =>
        /\ result = "ok"
        /\ track_info = ExpTrackInfo(input.pkts)
        /\ recs = ExpRecs(input.pkts, Len(input.pkts))

\* no two TRKINFO packets of the file declare the same trkid
DistinctTrkids(b) ==
    \A i, j \in 1..Len(b) :
        (b[i].type = 0 /\ b[j].type = 0 /\ b[i].data.trkid = b[j].data.trkid)
            => i = j

\* C4: the track_info of a file model holds at most one entry named EVENT,
\* get_track(name="EVENT") succeeds when the file has EVENT tracks (of
\* trkids of their own), and recs holds every REC of the file.
C4_EventDedup ==
    pc = "ready" =>
        /\ Cardinality(WithName(track_info, EVENT)) <= 1
        /\ (WithName(DataOfType(body, 0), EVENT) # {} /\ DistinctTrkids(body)) =>
              get_track(track_info, recs, NoTrkid, Some(EVENT)).err = ""
        /\ Len(recs) = Len(DataOfType(body, 1))

\* C6: a TRKINFO of any recfmt 1..8 is accepted, and a WAV REC of its track
\* decodes num elements of the width of that recfmt.
C6_AllRecfmts ==
    (input \in RecfmtInputs /\ Finished /\ ~call.made) =>
        /\ result = "ok"
        /\ Len(track_info) = 1
        /\ track_info[1].recfmt = input.pkts[1].recfmt
        /\ Len(recs) = 1
        /\ recs[1].values.recfmt = input.pkts[1].recfmt
        /\ recs[1].values.num = input.pkts[2].num
        /\ recs[1].values.vals =
              [i \in 1..input.pkts[2].num |-> ExpElem(i, input.pkts[1].recfmt)]

\* C9: once the file model is constructed, no get_track call changes the
\* header, the packet list, track_info or any REC payload of recs.
C9_Immutable ==
    [][pc = "ready" =>
          /\ header' = header
          /\ body' = body
          /\ track_info' = track_info
          /\ recs' = recs]_vars

\* the arguments get_track is called with
TrkidValues == {a.v : a \in {b \in TrkidArgs : b.given}}

NameValues == {a.v : a \in {b \in NameArgs : b.given}}

\* t and n name the same track: each matches one entry of track_info, the
\* same one
SameTrack(t, n) ==
    \E i \in 1..Len(track_info) :
        WithTrkid(track_info, t) = {i} /\ WithName(track_info, n) = {i}

\* the track view of track t can be built: its rec_type is one Track knows,
\* or it has no REC to convert
Convertible(t) ==
    \A i \in WithTrkid(track_info, t) :
        track_info[i].rec_type \in {1, 2, 5} \/ RecsOf(recs, t) = <<>>

RawRecAhead ==
    /\ pc = "loop"
    /\ Len(stream) - pos >= 17
    /\ U8(stream, pos) = 1
    /\ LET datalen == U32(stream, pos + 1)
           infolen == U16(stream, pos + 5)
           trkid == U16(stream, pos + 15)
       IN  /\ datalen <= Len(stream) - pos - 5
           /\ TimestampOk(stream, pos + 7)
           /\ trkid \in DOMAIN trk_format
           /\ trk_format[trkid].rec_type \notin {1, 2, 5}
           /\ infolen >= 10
           /\ datalen - infolen - 2 >= 0

====
